---- MODULE Spec2Model ----
(***************************************************************************)
(* The fixed-size worker thread pool of Rust/tcp_listener/src/lib.rs:      *)
(* ThreadPool::new, ThreadPool::execute, Drop for ThreadPool and the loop  *)
(* every Worker thread runs.  One action per step of the owner thread and  *)
(* of each worker thread, at the granularity of the statements that touch  *)
(* shared state (the channel, the Mutex around its Receiver, the Arc       *)
(* holding that Mutex, the JoinHandles).                                   *)
(***************************************************************************)
EXTENDS Integers, Sequences, FiniteSets, TLC

\* Largest size handed to ThreadPool::new, and largest number of accepted jobs.
MaxSize == 2
MaxJobs == 2

WorkerIds == 0 .. (MaxSize - 1)
JobIds == 1 .. MaxJobs

\* What a job's closure does when invoked: return, panic, or wait for an
\* external signal and then return.
JobKinds == {"normal", "failing", "blocking"}

NoWorker == -1
NoMessage == -1
RecvError == 0

VARIABLES
    poolPc,       \* position of the thread that owns the pool
    size,         \* argument of ThreadPool::new (NoSize before the call)
    workers,      \* ThreadPool.workers: Vec<Worker>, records [id, thread]
    sender,       \* the channel's Sender: "Unbuilt", "Some" or "None" (taken and dropped)
    receiverRefs, \* strong count of the Arc<Mutex<Receiver<Job>>>
    queue,        \* messages in the channel, head first
    lockHolder,   \* worker holding the MutexGuard, or NoWorker
    poisoned,     \* whether the Mutex is poisoned
    wpc,          \* position of every worker thread
    message,      \* every worker's local `message`: a job, RecvError or NoMessage
    joinIdx,      \* index of the worker the loop of drop is at
    kind,         \* kind of every accepted job
    nextJob,      \* number of accepted jobs + 1; jobs are numbered in submission order
    dequeued,     \* history: the jobs in the order recv returned them
    completed,    \* history: jobs whose closure returned
    failed,       \* history: jobs whose closure panicked
    abandoned,    \* history: jobs discarded with the Receiver
    released,     \* the external signal blocking jobs wait for
    result,       \* outcome of the last execute call
    state,        \* blog::Post.state: the State object the post holds
    content,      \* blog::Post.content: the text added so far
    lastCall      \* history: the last method called on the post

poolVars == <<poolPc, size, workers, sender, receiverRefs, queue, lockHolder, poisoned,
              wpc, message, joinIdx, kind, nextJob, dequeued, completed, failed,
              abandoned, released, result>>

postVars == <<state, content, lastCall>>

vars == <<poolVars, postVars>>

NoSize == -1

Range(s) == {s[i] : i \in 1 .. Len(s)}

Init ==
    /\ poolPc = "start"
    /\ size = NoSize
    /\ workers = <<>>
    /\ sender = "Unbuilt"
    /\ receiverRefs = 0
    /\ queue = <<>>
    /\ lockHolder = NoWorker
    /\ poisoned = FALSE
    /\ wpc = [w \in WorkerIds |-> "unspawned"]
    /\ message = [w \in WorkerIds |-> NoMessage]
    /\ joinIdx = 0
    /\ kind = [j \in JobIds |-> "none"]
    /\ nextJob = 1
    /\ dequeued = <<>>
    /\ completed = {}
    /\ failed = {}
    /\ abandoned = {}
    /\ released = FALSE
    /\ result = "none"
    /\ state = "Draft"
    /\ content = <<>>
    /\ lastCall = "new"

----------------------------------------------------------------------------
\* ThreadPool::new

\* ThreadPool::new without the assertion of line 23.
New_NoAssert(n) ==
    /\ poolPc = "start"
    /\ size' = n
    /\ poolPc' = "spawning"
    /\ sender' = "Some"
    /\ receiverRefs' = 1
    /\ UNCHANGED <<workers, queue, lockHolder, poisoned, wpc, message, joinIdx, kind,
                   nextJob, dequeued, completed, failed, abandoned, released, result>>
    /\ UNCHANGED postVars

\* Lines 22-29: the assertion on size, then the channel and the Arc around
\* the Mutex around its Receiver (one strong reference, the local `receiver`).
New(n) ==
    /\ poolPc = "start"
    /\ size' = n
    /\ IF n > 0
       THEN /\ poolPc' = "spawning"
            /\ sender' = "Some"
            /\ receiverRefs' = 1
       ELSE /\ poolPc' = "new_panicked"
            /\ UNCHANGED <<sender, receiverRefs>>
    /\ UNCHANGED <<workers, queue, lockHolder, poisoned, wpc, message, joinIdx, kind,
                   nextJob, dequeued, completed, failed, abandoned, released, result>>
    /\ UNCHANGED postVars

\* A pool that grows on demand: worker threads are also spawned after new has
\* returned, up to MaxSize of them.
Spawn_Grow ==
    /\ \/ poolPc = "spawning" /\ Len(workers) < size
       \/ poolPc = "ready" /\ Len(workers) < MaxSize
    /\ LET id == Len(workers) IN
        /\ workers' = Append(workers, [id |-> id, thread |-> TRUE])
        /\ wpc' = [wpc EXCEPT ![id] = "lock"]
    /\ receiverRefs' = receiverRefs + 1
    /\ UNCHANGED <<poolPc, size, sender, queue, lockHolder, poisoned, message, joinIdx,
                   kind, nextJob, dequeued, completed, failed, abandoned, released, result>>
    /\ UNCHANGED postVars

\* Lines 31-33 with Worker::new (84-107): one iteration of `for id in 0..size`.
\* The thread is spawned with a clone of the Arc and starts at the top of its loop.
Spawn ==
    /\ poolPc = "spawning"
    /\ Len(workers) < size
    /\ LET id == Len(workers) IN
        /\ workers' = Append(workers, [id |-> id, thread |-> TRUE])
        /\ wpc' = [wpc EXCEPT ![id] = "lock"]
    /\ receiverRefs' = receiverRefs + 1
    /\ UNCHANGED <<poolPc, size, sender, queue, lockHolder, poisoned, message, joinIdx,
                   kind, nextJob, dequeued, completed, failed, abandoned, released, result>>
    /\ UNCHANGED postVars

\* ThreadPool::new with the loop of line 31 one iteration short.
NewReturn_ShortLoop ==
    /\ poolPc = "spawning"
    /\ Len(workers) = size - 1
    /\ poolPc' = "ready"
    /\ receiverRefs' = receiverRefs - 1
    /\ UNCHANGED <<size, workers, sender, queue, lockHolder, poisoned, wpc, message,
                   joinIdx, kind, nextJob, dequeued, completed, failed, abandoned,
                   released, result>>
    /\ UNCHANGED postVars

\* Lines 35-39: the loop is over, the pool is returned; the local `receiver`
\* goes out of scope.
NewReturn ==
    /\ poolPc = "spawning"
    /\ Len(workers) = size
    /\ poolPc' = "ready"
    /\ receiverRefs' = receiverRefs - 1
    /\ UNCHANGED <<size, workers, sender, queue, lockHolder, poisoned, wpc, message,
                   joinIdx, kind, nextJob, dequeued, completed, failed, abandoned,
                   released, result>>
    /\ UNCHANGED postVars

----------------------------------------------------------------------------
\* ThreadPool::execute

\* Whether ThreadPool::new has returned a pool.
Constructed == poolPc \notin {"start", "new_panicked", "spawning"}

\* Whether the pool object exists and has not been destroyed.
PoolExists == poolPc \in {"ready", "drop_loop", "drop_join"}

\* execute putting the job at the head of the queue instead of its tail.
Execute_PushFront(k) ==
    /\ PoolExists
    /\ IF sender # "Some"
       THEN /\ result' = "panic_unwrap"
            /\ UNCHANGED <<queue, kind, nextJob>>
       ELSE IF receiverRefs = 0
       THEN /\ result' = "panic_send"
            /\ UNCHANGED <<queue, kind, nextJob>>
       ELSE /\ nextJob <= MaxJobs
            /\ queue' = <<nextJob>> \o queue
            /\ kind' = [kind EXCEPT ![nextJob] = k]
            /\ nextJob' = nextJob + 1
            /\ result' = "accepted"
    /\ UNCHANGED <<poolPc, size, workers, sender, receiverRefs, lockHolder, poisoned,
                   wpc, message, joinIdx, dequeued, completed, failed, abandoned,
                   released>>
    /\ UNCHANGED postVars

\* execute sending without looking at whether the sender was taken.
Execute_IgnoreClosed(k) ==
    /\ PoolExists
    /\ IF receiverRefs = 0
       THEN /\ result' = "panic_send"
            /\ UNCHANGED <<queue, kind, nextJob>>
       ELSE /\ nextJob <= MaxJobs
            /\ queue' = Append(queue, nextJob)
            /\ kind' = [kind EXCEPT ![nextJob] = k]
            /\ nextJob' = nextJob + 1
            /\ result' = "accepted"
    /\ UNCHANGED <<poolPc, size, workers, sender, receiverRefs, lockHolder, poisoned,
                   wpc, message, joinIdx, dequeued, completed, failed, abandoned,
                   released>>
    /\ UNCHANGED postVars

\* execute on a channel of capacity 1 (mpsc::sync_channel(1)): send waits
\* while the queue is full.
Execute_Bounded(k) ==
    /\ PoolExists
    /\ IF sender # "Some"
       THEN /\ result' = "panic_unwrap"
            /\ UNCHANGED <<queue, kind, nextJob>>
       ELSE IF receiverRefs = 0
       THEN /\ result' = "panic_send"
            /\ UNCHANGED <<queue, kind, nextJob>>
       ELSE /\ nextJob <= MaxJobs
            /\ Len(queue) < 1
            /\ queue' = Append(queue, nextJob)
            /\ kind' = [kind EXCEPT ![nextJob] = k]
            /\ nextJob' = nextJob + 1
            /\ result' = "accepted"
    /\ UNCHANGED <<poolPc, size, workers, sender, receiverRefs, lockHolder, poisoned,
                   wpc, message, joinIdx, dequeued, completed, failed, abandoned,
                   released>>
    /\ UNCHANGED postVars

\* execute on a pool that keeps a clone of the Arc for itself: the Receiver
\* outlives the worker threads and send never fails.
Execute_ReceiverKept(k) ==
    /\ PoolExists
    /\ IF sender # "Some"
       THEN /\ result' = "panic_unwrap"
            /\ UNCHANGED <<queue, kind, nextJob>>
       ELSE /\ nextJob <= MaxJobs
            /\ queue' = Append(queue, nextJob)
            /\ kind' = [kind EXCEPT ![nextJob] = k]
            /\ nextJob' = nextJob + 1
            /\ result' = "accepted"
    /\ UNCHANGED <<poolPc, size, workers, sender, receiverRefs, lockHolder, poisoned,
                   wpc, message, joinIdx, dequeued, completed, failed, abandoned,
                   released>>
    /\ UNCHANGED postVars

\* Lines 50-61.  as_ref() on a taken sender panics; send fails, and execute
\* panics, when the Receiver has been dropped; otherwise the job is appended.
Execute(k) ==
    /\ PoolExists
    /\ IF sender # "Some"
       THEN /\ result' = "panic_unwrap"
            /\ UNCHANGED <<queue, kind, nextJob>>
       ELSE IF receiverRefs = 0
       THEN /\ result' = "panic_send"
            /\ UNCHANGED <<queue, kind, nextJob>>
       ELSE /\ nextJob <= MaxJobs
            /\ queue' = Append(queue, nextJob)
            /\ kind' = [kind EXCEPT ![nextJob] = k]
            /\ nextJob' = nextJob + 1
            /\ result' = "accepted"
    /\ UNCHANGED <<poolPc, size, workers, sender, receiverRefs, lockHolder, poisoned,
                   wpc, message, joinIdx, dequeued, completed, failed, abandoned,
                   released>>
    /\ UNCHANGED postVars

----------------------------------------------------------------------------
\* The worker thread (closure of Worker::new, lines 85-101)

\* A worker thread ends (return or unwinding): its clone of the Arc is dropped;
\* with the last clone the Receiver goes, and the messages still queued with it.
ThreadEnds ==
    /\ receiverRefs' = receiverRefs - 1
    /\ IF receiverRefs = 1
       THEN /\ queue' = <<>>
            /\ abandoned' = abandoned \cup Range(queue)
       ELSE UNCHANGED <<queue, abandoned>>

\* lock() handing out a guard while another guard is alive.
Lock_NoWait(w) ==
    /\ wpc[w] = "lock"
    /\ IF poisoned
       THEN /\ wpc' = [wpc EXCEPT ![w] = "panicked"]
            /\ ThreadEnds
            /\ UNCHANGED lockHolder
       ELSE /\ wpc' = [wpc EXCEPT ![w] = "recv"]
            /\ lockHolder' = w
            /\ UNCHANGED <<receiverRefs, queue, abandoned>>
    /\ UNCHANGED <<poolPc, size, workers, sender, poisoned, message, joinIdx, kind,
                   nextJob, dequeued, completed, failed, released, result>>
    /\ UNCHANGED postVars

\* Line 86, receiver.lock().unwrap(): blocks while another guard is alive;
\* a poisoned Mutex makes unwrap panic.
Lock(w) ==
    /\ wpc[w] = "lock"
    /\ lockHolder = NoWorker
    /\ IF poisoned
       THEN /\ wpc' = [wpc EXCEPT ![w] = "panicked"]
            /\ ThreadEnds
            /\ UNCHANGED lockHolder
       ELSE /\ wpc' = [wpc EXCEPT ![w] = "recv"]
            /\ lockHolder' = w
            /\ UNCHANGED <<receiverRefs, queue, abandoned>>
    /\ UNCHANGED <<poolPc, size, workers, sender, poisoned, message, joinIdx, kind,
                   nextJob, dequeued, completed, failed, released, result>>
    /\ UNCHANGED postVars

\* recv handing out the head message without removing it.
Recv_Peek(w) ==
    /\ wpc[w] = "recv"
    /\ IF queue # <<>>
       THEN /\ message' = [message EXCEPT ![w] = Head(queue)]
            /\ dequeued' = Append(dequeued, Head(queue))
            /\ UNCHANGED queue
       ELSE /\ sender = "None"
            /\ message' = [message EXCEPT ![w] = RecvError]
            /\ UNCHANGED <<queue, dequeued>>
    /\ wpc' = [wpc EXCEPT ![w] = "unlock"]
    /\ UNCHANGED <<poolPc, size, workers, sender, receiverRefs, lockHolder, poisoned,
                   joinIdx, kind, nextJob, completed, failed, abandoned, released,
                   result>>
    /\ UNCHANGED postVars

\* recv handing out the newest message instead of the oldest.
Recv_TakeLast(w) ==
    /\ wpc[w] = "recv"
    /\ IF queue # <<>>
       THEN /\ message' = [message EXCEPT ![w] = queue[Len(queue)]]
            /\ queue' = SubSeq(queue, 1, Len(queue) - 1)
            /\ dequeued' = Append(dequeued, queue[Len(queue)])
       ELSE /\ sender = "None"
            /\ message' = [message EXCEPT ![w] = RecvError]
            /\ UNCHANGED <<queue, dequeued>>
    /\ wpc' = [wpc EXCEPT ![w] = "unlock"]
    /\ UNCHANGED <<poolPc, size, workers, sender, receiverRefs, lockHolder, poisoned,
                   joinIdx, kind, nextJob, completed, failed, abandoned, released,
                   result>>
    /\ UNCHANGED postVars

\* recv reporting the disconnection as soon as the Sender is gone, queued
\* messages or not.
Recv_ErrWhenClosed(w) ==
    /\ wpc[w] = "recv"
    /\ IF sender = "None"
       THEN /\ message' = [message EXCEPT ![w] = RecvError]
            /\ UNCHANGED <<queue, dequeued>>
       ELSE /\ queue # <<>>
            /\ message' = [message EXCEPT ![w] = Head(queue)]
            /\ queue' = Tail(queue)
            /\ dequeued' = Append(dequeued, Head(queue))
    /\ wpc' = [wpc EXCEPT ![w] = "unlock"]
    /\ UNCHANGED <<poolPc, size, workers, sender, receiverRefs, lockHolder, poisoned,
                   joinIdx, kind, nextJob, completed, failed, abandoned, released,
                   result>>
    /\ UNCHANGED postVars

\* recv waiting for a message for ever, disconnected channel or not.
Recv_NeverErr(w) ==
    /\ wpc[w] = "recv"
    /\ queue # <<>>
    /\ message' = [message EXCEPT ![w] = Head(queue)]
    /\ queue' = Tail(queue)
    /\ dequeued' = Append(dequeued, Head(queue))
    /\ wpc' = [wpc EXCEPT ![w] = "unlock"]
    /\ UNCHANGED <<poolPc, size, workers, sender, receiverRefs, lockHolder, poisoned,
                   joinIdx, kind, nextJob, completed, failed, abandoned, released,
                   result>>
    /\ UNCHANGED postVars

\* Line 86, .recv() under the guard: the head message if there is one, an error
\* if the queue is empty and the Sender is gone, and otherwise it blocks.
Recv(w) ==
    /\ wpc[w] = "recv"
    /\ IF queue # <<>>
       THEN /\ message' = [message EXCEPT ![w] = Head(queue)]
            /\ queue' = Tail(queue)
            /\ dequeued' = Append(dequeued, Head(queue))
       ELSE /\ sender = "None"
            /\ message' = [message EXCEPT ![w] = RecvError]
            /\ UNCHANGED <<queue, dequeued>>
    /\ wpc' = [wpc EXCEPT ![w] = "unlock"]
    /\ UNCHANGED <<poolPc, size, workers, sender, receiverRefs, lockHolder, poisoned,
                   joinIdx, kind, nextJob, completed, failed, abandoned, released,
                   result>>
    /\ UNCHANGED postVars

\* The guard not dropped at the end of the statement: it stays alive through
\* the body of the match, as with
\* `while let Ok(job) = receiver.lock().unwrap().recv()`.
Unlock_KeepGuard(w) ==
    /\ wpc[w] = "unlock"
    /\ wpc' = [wpc EXCEPT ![w] = "match"]
    /\ UNCHANGED <<poolPc, size, workers, sender, receiverRefs, queue, lockHolder,
                   poisoned, message, joinIdx, kind, nextJob, dequeued, completed,
                   failed, abandoned, released, result>>
    /\ UNCHANGED postVars

\* End of the statement of line 86: the temporary MutexGuard is dropped.
Unlock(w) ==
    /\ wpc[w] = "unlock"
    /\ lockHolder' = IF lockHolder = w THEN NoWorker ELSE lockHolder
    /\ wpc' = [wpc EXCEPT ![w] = "match"]
    /\ UNCHANGED <<poolPc, size, workers, sender, receiverRefs, queue, poisoned,
                   message, joinIdx, kind, nextJob, dequeued, completed, failed,
                   abandoned, released, result>>
    /\ UNCHANGED postVars

\* Lines 88-98: Ok(job) invokes job(); Err(_) breaks out of the loop and the
\* thread returns.
Match(w) ==
    /\ wpc[w] = "match"
    /\ IF message[w] = RecvError
       THEN /\ wpc' = [wpc EXCEPT ![w] = "exited"]
            /\ message' = [message EXCEPT ![w] = NoMessage]
            /\ ThreadEnds
       ELSE /\ wpc' = [wpc EXCEPT ![w] = "running"]
            /\ UNCHANGED <<message, receiverRefs, queue, abandoned>>
    /\ UNCHANGED <<poolPc, size, workers, sender, lockHolder, poisoned, joinIdx, kind,
                   nextJob, dequeued, completed, failed, released, result>>
    /\ UNCHANGED postVars

\* Line 92, job() returns (a blocking job only once released); the loop goes on.
JobReturn(w) ==
    /\ wpc[w] = "running"
    /\ \/ kind[message[w]] = "normal"
       \/ kind[message[w]] = "blocking" /\ released
    /\ completed' = completed \cup {message[w]}
    /\ message' = [message EXCEPT ![w] = NoMessage]
    /\ wpc' = [wpc EXCEPT ![w] = "lock"]
    /\ UNCHANGED <<poolPc, size, workers, sender, receiverRefs, queue, lockHolder,
                   poisoned, joinIdx, kind, nextJob, dequeued, failed, abandoned,
                   released, result>>
    /\ UNCHANGED postVars

\* job() panicking inside the scope of the guard: the Mutex is left poisoned.
JobPanic_Poison(w) ==
    /\ wpc[w] = "running"
    /\ kind[message[w]] = "failing"
    /\ failed' = failed \cup {message[w]}
    /\ message' = [message EXCEPT ![w] = NoMessage]
    /\ wpc' = [wpc EXCEPT ![w] = "panicked"]
    /\ lockHolder' = IF lockHolder = w THEN NoWorker ELSE lockHolder
    /\ poisoned' = TRUE
    /\ ThreadEnds
    /\ UNCHANGED <<poolPc, size, workers, sender, joinIdx, kind, nextJob, dequeued,
                   completed, released, result>>
    /\ UNCHANGED postVars

\* Line 92, job() panics: the worker's thread unwinds and ends.  A guard alive
\* at that point would be dropped while panicking, which poisons the Mutex.
JobPanic(w) ==
    /\ wpc[w] = "running"
    /\ kind[message[w]] = "failing"
    /\ failed' = failed \cup {message[w]}
    /\ message' = [message EXCEPT ![w] = NoMessage]
    /\ wpc' = [wpc EXCEPT ![w] = "panicked"]
    /\ IF lockHolder = w
       THEN lockHolder' = NoWorker /\ poisoned' = TRUE
       ELSE UNCHANGED <<lockHolder, poisoned>>
    /\ ThreadEnds
    /\ UNCHANGED <<poolPc, size, workers, sender, joinIdx, kind, nextJob, dequeued,
                   completed, released, result>>
    /\ UNCHANGED postVars

\* The signal the blocking jobs wait for, given by code outside the pool.
Release ==
    /\ Constructed
    /\ ~released
    /\ released' = TRUE
    /\ UNCHANGED <<poolPc, size, workers, sender, receiverRefs, queue, lockHolder,
                   poisoned, wpc, message, joinIdx, kind, nextJob, dequeued, completed,
                   failed, abandoned, result>>
    /\ UNCHANGED postVars

----------------------------------------------------------------------------
\* Drop for ThreadPool

Terminated(w) == wpc[w] \in {"exited", "panicked"}

\* drop going to its joins with the sender left in place.
DropBegin_KeepSender ==
    /\ poolPc = "ready"
    /\ poolPc' = "drop_loop"
    /\ joinIdx' = 0
    /\ UNCHANGED <<size, workers, sender, receiverRefs, queue, lockHolder, poisoned,
                   wpc, message, kind, nextJob, dequeued, completed, failed, abandoned,
                   released, result>>
    /\ UNCHANGED postVars

\* Line 66: drop(self.sender.take()).
DropBegin ==
    /\ poolPc = "ready"
    /\ sender' = "None"
    /\ poolPc' = "drop_loop"
    /\ joinIdx' = 0
    /\ UNCHANGED <<size, workers, receiverRefs, queue, lockHolder, poisoned, wpc,
                   message, kind, nextJob, dequeued, completed, failed, abandoned,
                   released, result>>
    /\ UNCHANGED postVars

\* Lines 68-71: next worker of the loop, worker.thread.take().
JoinTake ==
    /\ poolPc = "drop_loop"
    /\ joinIdx < Len(workers)
    /\ workers' = [workers EXCEPT ![joinIdx + 1].thread = FALSE]
    /\ poolPc' = "drop_join"
    /\ UNCHANGED <<size, sender, receiverRefs, queue, lockHolder, poisoned, wpc,
                   message, joinIdx, kind, nextJob, dequeued, completed, failed,
                   abandoned, released, result>>
    /\ UNCHANGED postVars

\* The handle let go without waiting for the thread (a detach instead of a join).
Join_NoWait ==
    /\ poolPc = "drop_join"
    /\ poolPc' = "drop_loop"
    /\ joinIdx' = joinIdx + 1
    /\ UNCHANGED <<size, workers, sender, receiverRefs, queue, lockHolder, poisoned,
                   wpc, message, kind, nextJob, dequeued, completed, failed, abandoned,
                   released, result>>
    /\ UNCHANGED postVars

\* The result of join discarded instead of unwrapped (`let _ = thread.join();`).
Join_IgnoreErr ==
    /\ poolPc = "drop_join"
    /\ Terminated(workers[joinIdx + 1].id)
    /\ poolPc' = "drop_loop"
    /\ joinIdx' = joinIdx + 1
    /\ UNCHANGED <<size, workers, sender, receiverRefs, queue, lockHolder, poisoned,
                   wpc, message, kind, nextJob, dequeued, completed, failed, abandoned,
                   released, result>>
    /\ UNCHANGED postVars

\* Line 72: thread.join().unwrap() returns once the thread has ended; join gives
\* Err for a thread that panicked and unwrap then panics out of drop.
Join ==
    /\ poolPc = "drop_join"
    /\ Terminated(workers[joinIdx + 1].id)
    /\ IF wpc[workers[joinIdx + 1].id] = "panicked"
       THEN /\ poolPc' = "drop_panicked"
            /\ UNCHANGED joinIdx
       ELSE /\ poolPc' = "drop_loop"
            /\ joinIdx' = joinIdx + 1
    /\ UNCHANGED <<size, workers, sender, receiverRefs, queue, lockHolder, poisoned,
                   wpc, message, kind, nextJob, dequeued, completed, failed, abandoned,
                   released, result>>
    /\ UNCHANGED postVars

\* Line 75: the loop has visited every worker; drop returns.
DropReturn ==
    /\ poolPc = "drop_loop"
    /\ joinIdx = Len(workers)
    /\ poolPc' = "dropped"
    /\ UNCHANGED <<size, workers, sender, receiverRefs, queue, lockHolder, poisoned,
                   wpc, message, joinIdx, kind, nextJob, dequeued, completed, failed,
                   abandoned, released, result>>
    /\ UNCHANGED postVars

----------------------------------------------------------------------------

WorkerNext(w) ==
    \/ Lock(w)
    \/ Recv(w)
    \/ Unlock(w)
    \/ Match(w)
    \/ JobReturn(w)
    \/ JobPanic(w)

Next ==
    \/ \E n \in 0 .. MaxSize : New(n)
    \/ Spawn
    \/ NewReturn
    \/ \E k \in JobKinds : Execute(k)
    \/ \E w \in WorkerIds : WorkerNext(w)
    \/ Release
    \/ DropBegin
    \/ JoinTake
    \/ Join
    \/ DropReturn

Spec == Init /\ [][Next]_vars

\* The operating system schedules every runnable thread: each worker thread
\* that can take a step eventually takes one.
FairSpec == Spec /\ \A w \in WorkerIds : WF_vars(WorkerNext(w))

\* Besides, every job body terminates (the signal the blocking jobs wait for is
\* eventually given), and the thread inside drop, once the thread it joins has
\* ended, goes on.
LiveSpec ==
    /\ FairSpec
    /\ WF_vars(Release)
    /\ WF_vars(JoinTake \/ Join \/ DropReturn)

----------------------------------------------------------------------------
\* The blog post of rust/src/object_oriented_rust/mod.rs
\* (implementing_design_pattern::blog): Post and the State objects Draft,
\* PendingReview and Published.  Strings are sequences of characters.

\* Longest content of a post.
MaxText == 4

\* The texts handed to add_text.
Texts == {<<>>, <<"a">>, <<"b">>, <<"a", "b">>}

\* State::request_review of Draft, PendingReview and Published (lines 158-160,
\* 174-176, 190-192).
StateRequestReview(s) ==
    CASE s = "Draft" -> "PendingReview"
      [] s = "PendingReview" -> "PendingReview"
      [] s = "Published" -> "Published"

\* approve publishing a draft that was never put up for review.
StateApprove_FromDraft(s) ==
    CASE s = "Draft" -> "Published"
      [] s = "PendingReview" -> "Published"
      [] s = "Published" -> "Published"

\* State::approve of Draft, PendingReview and Published (lines 162-164,
\* 178-180, 194-196).
StateApprove(s) ==
    CASE s = "Draft" -> "Draft"
      [] s = "PendingReview" -> "Published"
      [] s = "Published" -> "Published"

\* State::content: the default method (lines 149-151) gives "", the one of
\* Published (lines 198-200) gives the content of the post.
StateContent(s, c) ==
    CASE s = "Published" -> c
      [] OTHER -> <<>>

\* Post::content (lines 135-137).
PostContent == StateContent(state, content)

\* Post::add_text (lines 125-127).
AddText(text) ==
    /\ Len(content) + Len(text) <= MaxText
    /\ content' = content \o text
    /\ lastCall' = "add_text"
    /\ UNCHANGED state
    /\ UNCHANGED poolVars

\* Post::request_review (lines 139-143).
RequestReview ==
    /\ state' = StateRequestReview(state)
    /\ lastCall' = "request_review"
    /\ UNCHANGED content
    /\ UNCHANGED poolVars

\* Post::approve (lines 129-133).
Approve ==
    /\ state' = StateApprove(state)
    /\ lastCall' = "approve"
    /\ UNCHANGED content
    /\ UNCHANGED poolVars

PostNext ==
    \/ \E text \in Texts : AddText(text)
    \/ RequestReview
    \/ Approve

PostSpec == Init /\ [][PostNext]_vars

----------------------------------------------------------------------------
\* Properties

LiveWorkers == {w \in WorkerIds : wpc[w] \notin {"unspawned", "exited", "panicked"}}
InFlight == {w \in WorkerIds : wpc[w] = "running"}
Accepted == 1 .. (nextJob - 1)

\* C1: ThreadPool::new(0) ends in a panic and yields no pool: no channel is
\* kept, no worker thread is spawned, and no job is ever accepted.
C1_NewZeroPanics ==
    size = 0 =>
        /\ poolPc = "new_panicked"
        /\ workers = <<>>
        /\ sender = "Unbuilt"
        /\ receiverRefs = 0
        /\ \A w \in WorkerIds : wpc[w] = "unspawned"
        /\ queue = <<>>
        /\ nextJob = 1
        /\ result = "none"

C1_Witness == size = 0 /\ poolPc = "new_panicked"

\* The pool as ThreadPool::new(size) hands it over: size workers with ids
\* 0..size-1 in construction order, each with its JoinHandle and its thread in
\* the loop, each holding one clone of the one Arc, and the Sender present.
PoolAsBuilt ==
    /\ Len(workers) = size
    /\ \A i \in 1 .. Len(workers) :
          /\ workers[i].id = i - 1
          /\ workers[i].thread
    /\ \A w \in WorkerIds :
          IF w < size THEN wpc[w] \in {"lock", "recv"} ELSE wpc[w] = "unspawned"
    /\ receiverRefs = size
    /\ sender = "Some"

\* C2: for size > 0 ThreadPool::new does not panic, and at the step at which it
\* returns the pool is as PoolAsBuilt describes.
C2_NewBuildsWorkers ==
    /\ [](size > 0 => poolPc # "new_panicked")
    /\ [][(poolPc = "spawning" /\ poolPc' = "ready") => PoolAsBuilt']_vars

C2_Witness == poolPc = "ready" /\ size = MaxSize /\ nextJob = 1 /\ PoolAsBuilt

\* C3: no job is claimed or executed more than once: recv returns every job at
\* most once, a job that was returned is not in the queue again, no two workers
\* hold the same job, and a job that has run is held by no worker.
C3_NoJobClaimedTwice ==
    /\ \A i, j \in 1 .. Len(dequeued) : dequeued[i] = dequeued[j] => i = j
    /\ \A i, j \in 1 .. Len(queue) : queue[i] = queue[j] => i = j
    /\ Range(dequeued) \cap Range(queue) = {}
    /\ \A v, w \in WorkerIds :
          (message[v] \in JobIds /\ message[v] = message[w]) => v = w
    /\ \A w \in WorkerIds : message[w] \notin (completed \cup failed)
    /\ completed \cap failed = {}

C3_Witness ==
    /\ Len(dequeued) >= 2
    /\ Cardinality(completed \cup failed) >= 1
    /\ \E w \in WorkerIds : wpc[w] = "running"

\* C4: recv returns the jobs in the order execute accepted them (jobs are
\* numbered in that order), whichever workers receive them.
C4_GlobalFifo ==
    /\ \A i \in 1 .. Len(dequeued) : dequeued[i] = i
    /\ \A i \in 1 .. Len(queue) : queue[i] = Len(dequeued) + i

C4_Witness ==
    /\ Len(dequeued) >= 2
    /\ Cardinality({w \in WorkerIds : wpc[w] \in {"match", "running"}}) >= 2

\* C5: no worker holds the guard of the receiver's Mutex while its job runs.
C5_NoLockWhileRunning ==
    \A w \in WorkerIds : wpc[w] = "running" => lockHolder # w

C5_Witness ==
    \E v, w \in WorkerIds :
        /\ v # w
        /\ wpc[v] = "running"
        /\ lockHolder = w
        /\ wpc[w] = "unlock"
        /\ message[w] \in JobIds

\* The accepted jobs are exactly n <= size jobs, all of them blocking, and the
\* signal they wait for has not been given.
BlockedBatch(n) ==
    /\ Constructed
    /\ nextJob - 1 = n
    /\ n <= size
    /\ \A j \in 1 .. n : kind[j] = "blocking"
    /\ ~released

AllRunning(n) ==
    \A j \in 1 .. n : \E w \in WorkerIds : wpc[w] = "running" /\ message[w] = j

\* C6: n <= size blocking jobs on a pool of size workers all come to be in
\* flight at the same time, on n different workers, while none of them has
\* been released.
C6_BlockingJobsAllInFlight ==
    \A n \in 1 .. MaxJobs : BlockedBatch(n) ~> (released \/ AllRunning(n))

C6_Witness ==
    /\ BlockedBatch(2)
    /\ AllRunning(2)
    /\ completed = {}
    /\ \E v, w \in WorkerIds : v # w /\ message[v] = 1 /\ message[w] = 2

\* C7: when drop has returned, every accepted job has completed: the queue is
\* empty, no job is in flight, none was left unexecuted.
C7_DropWaitsForJobs ==
    poolPc = "dropped" =>
        /\ queue = <<>>
        /\ completed = Accepted
        /\ InFlight = {}
        /\ \A w \in WorkerIds : message[w] = NoMessage

C7_Witness ==
    /\ poolPc = "dropped"
    /\ size = 1
    /\ nextJob - 1 = MaxJobs
    /\ completed = Accepted

\* C8: when drop has ended, by returning or by panicking, every worker thread
\* of the pool has terminated.
C8_DropEndsWithAllTerminated ==
    poolPc \in {"dropped", "drop_panicked"} =>
        \A w \in WorkerIds : w < size => Terminated(w)

\* C9: an execute call made once the sender has been taken panics, and leaves
\* the queue and the set of accepted jobs as they were.
C9_ExecuteAfterCloseFails ==
    [][((\E k \in JobKinds : Execute(k)) /\ sender = "None") =>
          /\ result' = "panic_unwrap"
          /\ queue' = queue
          /\ nextJob' = nextJob
          /\ kind' = kind]_vars

C9_Witness ==
    /\ sender = "None"
    /\ result = "panic_unwrap"
    /\ queue # <<>>
    /\ LiveWorkers # {}

\* C10: a worker thread panics only through the failure of the job it is
\* running, that failure changes the position of no other worker, and while
\* the pool is in operation the number of live workers is the size of the pool
\* minus the number of failed jobs.
C10_PanicKillsOnlyItsWorker ==
    /\ [](poolPc = "ready" => Cardinality(LiveWorkers) = size - Cardinality(failed))
    /\ [][\A w \in WorkerIds :
            (wpc[w] # "panicked" /\ wpc'[w] = "panicked") =>
                /\ wpc[w] = "running"
                /\ kind[message[w]] = "failing"
                /\ failed' = failed \cup {message[w]}
                /\ \A v \in WorkerIds \ {w} : wpc'[v] = wpc[v]]_vars

C10_Witness ==
    /\ poolPc = "ready"
    /\ size = 2
    /\ Cardinality(failed) = 1
    /\ Cardinality(completed) = 1
    /\ Cardinality(LiveWorkers) = 1
    /\ \E w \in LiveWorkers : wpc[w] = "recv"

\* C11: no operation of the owner thread ends in a panic because of a job's
\* failure: drop does not panic, and no execute call made by the owner fails
\* on send.
C11_JobFailureNotSurfaced ==
    failed # {} => (poolPc # "drop_panicked" /\ result # "panic_send")

\* job() has been invoked on job j.
Started(j) ==
    \/ j \in completed \cup failed
    \/ \E w \in WorkerIds : wpc[w] = "running" /\ message[w] = j

\* C12: no accepted job stays in the queue for ever while a worker is live:
\* whatever has been accepted, a state comes in which job() has been invoked
\* on every accepted job, unless every worker thread has ended.
C12_QueuedJobEventuallyRuns ==
    []<>((\A j \in Accepted : Started(j)) \/ LiveWorkers = {})

C12_Witness ==
    /\ size = 1
    /\ sender = "Some"
    /\ 1 \in completed
    /\ wpc[0] = "running"
    /\ message[0] = 2

\* C13: before teardown has begun, every execute call has succeeded, however
\* many worker threads have ended through the failure of their job.
C13_ExecuteSucceedsBeforeTeardown ==
    poolPc = "ready" => result \in {"none", "accepted"}

\* C14: execute never waits: as long as the pool is in operation (and the
\* model's bound on the number of jobs is not reached) an execute call can
\* take its step, whatever the length of the queue, whoever holds the lock and
\* however many workers are busy.
C14_ExecuteNeverBlocks ==
    (poolPc = "ready" /\ nextJob <= MaxJobs) =>
        ENABLED (\E k \in JobKinds : Execute(k))

C14_Witness ==
    /\ poolPc = "ready"
    /\ result = "accepted"
    /\ nextJob <= MaxJobs
    /\ queue # <<>>
    /\ lockHolder # NoWorker
    /\ LiveWorkers # {}
    /\ \A w \in LiveWorkers : wpc[w] \in {"recv", "running"}

\* C15: content() of a post gives the text added so far when the post is
\* Published and the empty string when it is a Draft or PendingReview (so, for
\* a non-empty text, it gives the text exactly when the post is Published); the
\* state changes only from Draft to PendingReview by request_review and from
\* PendingReview to Published by approve, never by add_text.
C15_ContentOnlyWhenPublished ==
    /\ [](state \in {"Draft", "PendingReview", "Published"})
    /\ [](state = "Published" => PostContent = content)
    /\ [](state # "Published" => PostContent = <<>>)
    /\ [](content # <<>> => (PostContent = content <=> state = "Published"))
    /\ [][state' # state =>
            \/ state = "Draft" /\ state' = "PendingReview" /\ lastCall' = "request_review"
            \/ state = "PendingReview" /\ state' = "Published" /\ lastCall' = "approve"]_vars

C15_Witness ==
    /\ state = "Published"
    /\ lastCall = "approve"
    /\ content = <<"a", "b">>
    /\ PostContent = <<"a", "b">>

\* C16: jobs start in submission order: whenever job() has been invoked on a
\* job, it has been invoked on every job submitted before it.
C16_StartInSubmissionOrder ==
    \A i, j \in Accepted : (i < j /\ Started(j)) => Started(i)

\* C16, amended: whenever job() has been invoked on a job, every job submitted
\* before it has been dequeued by some worker (which may not have invoked it yet).
C16_StartAfterEarlierDequeued ==
    \A i, j \in Accepted : (i < j /\ Started(j)) => i \in Range(dequeued)

C16_Witness ==
    \E v, w \in WorkerIds :
        /\ v # w
        /\ message[v] = 1
        /\ wpc[v] \in {"unlock", "match"}
        /\ message[w] = 2
        /\ wpc[w] = "running"

InDrop == poolPc \in {"drop_loop", "drop_join", "dropped", "drop_panicked"}

\* C17: drop takes and drops the sender before it takes or joins any worker's
\* thread: inside drop, and whenever a handle has been taken, the sender is None.
C17_CloseBeforeJoin ==
    /\ InDrop => sender = "None"
    /\ \A i \in 1 .. Len(workers) : ~workers[i].thread => sender = "None"

C17_Witness ==
    /\ poolPc = "drop_join"
    /\ joinIdx = 0
    /\ ~workers[1].thread
    /\ sender = "None"
    /\ ~Terminated(workers[1].id)

\* C18: drop takes the handles in construction order, each once and only
\* inside drop, and takes the handle of a worker only when the threads of all
\* workers before it have been joined.
C18_JoinInConstructionOrder ==
    /\ [](\A i \in 1 .. Len(workers) :
            /\ ~workers[i].thread =>
                  /\ InDrop
                  /\ i <= joinIdx + 1
                  /\ \A k \in 1 .. (i - 1) :
                        ~workers[k].thread /\ wpc[workers[k].id] = "exited"
            /\ workers[i].thread => i >= joinIdx + 1)
    /\ [](poolPc = "drop_join" => ~workers[joinIdx + 1].thread)
    /\ [][\A i \in 1 .. Len(workers) :
            /\ ~workers[i].thread => ~workers'[i].thread
            /\ (workers[i].thread /\ ~workers'[i].thread) =>
                  (poolPc = "drop_loop" /\ poolPc' = "drop_join" /\ i = joinIdx + 1)]_vars

C18_Witness ==
    /\ size = 2
    /\ poolPc = "drop_join"
    /\ joinIdx = 1
    /\ wpc[0] = "exited"
    /\ ~workers[1].thread
    /\ ~workers[2].thread
    /\ wpc[1] = "running"

\* C19: taking the sender leaves the queue as it is; recv reports the closure
\* only when the sender is gone and the queue is empty, and with a non-empty
\* queue it returns the head job, closed or not; a queued job is discarded
\* only with the Receiver itself.
C19_CloseKeepsQueuedJobs ==
    /\ [](\A w \in WorkerIds :
            message[w] = RecvError => (sender = "None" /\ queue = <<>>))
    /\ [](abandoned # {} => receiverRefs = 0)
    /\ [][(sender = "Some" /\ sender' = "None") => queue' = queue]_vars
    /\ [][\A w \in WorkerIds :
            (wpc[w] = "recv" /\ wpc'[w] = "unlock") =>
                IF queue # <<>>
                THEN message'[w] = Head(queue) /\ queue' = Tail(queue)
                ELSE message'[w] = RecvError /\ sender = "None"]_vars

C19_Witness ==
    /\ sender = "None"
    /\ Len(queue) = 2
    /\ \E w \in WorkerIds : wpc[w] = "recv" /\ lockHolder = w

\* Every worker thread has ended and drop has ended; if no job failed, every
\* worker left its loop on the closure and drop returned.
ShutDown ==
    /\ \A w \in WorkerIds : w < size => Terminated(w)
    /\ IF failed = {}
       THEN /\ poolPc = "dropped"
            /\ \A w \in WorkerIds : w < size => wpc[w] = "exited"
       ELSE poolPc \in {"dropped", "drop_panicked"}

\* C20: once the sender is taken, every worker thread comes to its end (none
\* stays blocked on the lock or in recv) and drop comes to its end.
C20_ShutdownTerminates == (sender = "None") ~> ShutDown

C20_Witness ==
    /\ size = 2
    /\ poolPc = "dropped"
    /\ completed = {1, 2}
    /\ ShutDown

\* C21: the worker set is fixed at construction: once new has returned, the
\* vector of workers has size entries with ids 0..size-1 and never changes its
\* length, no thread is spawned, a thread that has ended (on the closure or by
\* its job's failure) stays ended, and so the set of live workers only shrinks.
C21_WorkerSetFixed ==
    /\ [](Constructed =>
            /\ Len(workers) = size
            /\ \A i \in 1 .. Len(workers) : workers[i].id = i - 1)
    /\ [](\A w \in WorkerIds : wpc[w] # "unspawned" <=> w < Len(workers))
    /\ [][Constructed =>
            /\ Len(workers') = Len(workers)
            /\ \A w \in WorkerIds : wpc[w] = "unspawned" => wpc'[w] = "unspawned"
            /\ LiveWorkers' \subseteq LiveWorkers]_vars
    /\ [][\A w \in WorkerIds : Terminated(w) => wpc'[w] = wpc[w]]_vars

C21_Witness ==
    /\ size = 2
    /\ Len(workers) = 2
    /\ wpc[0] = "panicked"
    /\ wpc[1] = "exited"
    /\ LiveWorkers = {}

\* The workers inside the statement of line 86 past lock(): in recv, or with
\* its result and the guard not yet dropped.
InReceive == {w \in WorkerIds : wpc[w] \in {"recv", "unlock"}}

\* C22: at most one worker at a time is inside recv on the shared Receiver,
\* and it is the worker holding the guard of the Mutex; every other worker is
\* outside the statement of line 86 or waiting in lock().
C22_OneWorkerInReceive ==
    /\ Cardinality(InReceive) <= 1
    /\ \A w \in WorkerIds : w \in InReceive <=> lockHolder = w
    /\ lockHolder \in WorkerIds \cup {NoWorker}

C22_Witness ==
    \E v, w \in WorkerIds :
        /\ v # w
        /\ wpc[v] = "recv"
        /\ lockHolder = v
        /\ queue # <<>>
        /\ wpc[w] = "lock"

\* C23: the lock is held only while the head job is removed, so no worker
\* waits in lock() while the worker holding the guard is itself waiting in
\* recv on an empty queue whose sender is still there.
C23_NoLockWaitBehindBlockedRecv ==
    ~ \E v, w \in WorkerIds :
        /\ v # w
        /\ wpc[v] = "lock"
        /\ lockHolder = w
        /\ wpc[w] = "recv"
        /\ queue = <<>>
        /\ sender = "Some"

\* A live worker that the pool itself keeps from taking a step (a job waiting
\* for its signal is kept by the job, not by the pool).
Suspended(w) ==
    /\ w \in LiveWorkers
    /\ wpc[w] # "running"
    /\ ~ ENABLED WorkerNext(w)

\* C23, amended: the guard is held for the whole of lock().unwrap().recv(),
\* the wait of recv on an empty queue included, and at no other point; a live
\* worker is suspended only in recv on an empty queue whose sender is still
\* there, holding the guard, or in lock() while another worker is inside that
\* statement.
C23_SuspendedInRecvOrBehindIt ==
    /\ \A w \in WorkerIds : lockHolder = w => wpc[w] \in {"recv", "unlock"}
    /\ \A w \in WorkerIds :
          Suspended(w) =>
              \/ /\ wpc[w] = "recv"
                 /\ lockHolder = w
                 /\ queue = <<>>
                 /\ sender = "Some"
              \/ /\ wpc[w] = "lock"
                 /\ \E v \in WorkerIds \ {w} :
                       lockHolder = v /\ wpc[v] \in {"recv", "unlock"}

C23_Witness ==
    \E v, w \in WorkerIds :
        /\ v # w
        /\ Suspended(v)
        /\ Suspended(w)
        /\ wpc[v] = "lock"
        /\ wpc[w] = "recv"
        /\ lockHolder = w
        /\ queue = <<>>
        /\ sender = "Some"
        /\ completed # {}

\* The number of places job j is in: positions of the queue, workers holding it
\* as their message (received, and being run or about to be), the completed
\* jobs, the failed jobs.
Places(j) ==
    Cardinality({i \in 1 .. Len(queue) : queue[i] = j})
    + Cardinality({w \in WorkerIds : message[w] = j})
    + (IF j \in completed THEN 1 ELSE 0)
    + (IF j \in failed THEN 1 ELSE 0)

\* C24: every accepted job is in exactly one place: in the queue, held by
\* exactly one worker, completed, or failed.
C24_JobInOnePlace ==
    \A j \in Accepted : Places(j) = 1

\* C24, amended: every accepted job is in exactly one place: in the queue, held
\* by exactly one worker, completed, failed, or discarded unexecuted with the
\* Receiver; jobs are discarded only once every worker thread has ended.
C24_JobInOnePlaceOrDiscarded ==
    /\ \A j \in Accepted : Places(j) + (IF j \in abandoned THEN 1 ELSE 0) = 1
    /\ abandoned \subseteq Accepted
    /\ abandoned # {} => (LiveWorkers = {} /\ receiverRefs = 0 /\ queue = <<>>)
    /\ \A w \in WorkerIds : message[w] \in JobIds => message[w] \in Accepted

C24_Witness ==
    /\ size = 2
    /\ failed = {1}
    /\ abandoned = {}
    /\ \E w \in WorkerIds : wpc[w] = "running" /\ message[w] = 2

C24_DiscardedWitness ==
    /\ failed = {1}
    /\ abandoned = {2}

\* The jobs in flight: received by a worker and neither returned nor panicked.
InFlightJobs == Range(dequeued) \ (completed \cup failed)

\* C25: the jobs in flight are at most as many as the live workers, every one
\* of them held by one live worker, which holds no other; and the live workers
\* are at most as many as the size given to new.
C25_ConcurrencyBounded ==
    /\ Cardinality(InFlightJobs) <= Cardinality(LiveWorkers)
    /\ Cardinality(InFlight) <= Cardinality(InFlightJobs)
    /\ InFlightJobs = {message[w] : w \in {v \in LiveWorkers : message[v] \in JobIds}}
    /\ \A w \in InFlight : message[w] \in InFlightJobs
    /\ size # NoSize => Cardinality(LiveWorkers) <= size

C25_Witness ==
    /\ size = MaxSize
    /\ sender = "None"
    /\ Cardinality(InFlight) = MaxSize
    /\ Cardinality(InFlightJobs) = MaxSize

\* C26: a worker thread ends in two ways only: it returns after recv reported
\* the disconnection (sender gone, queue empty), or it unwinds from the panic
\* of the job it is running.  So no thread has returned while the sender is
\* there, and the threads that panicked are as many as the jobs that failed.
C26_WorkerEndsOnClosureOrOwnFailure ==
    /\ [][\A w \in WorkerIds :
            (~ Terminated(w) /\ Terminated(w)') =>
                \/ /\ wpc[w] = "match"
                   /\ message[w] = RecvError
                   /\ sender = "None"
                   /\ wpc'[w] = "exited"
                \/ /\ wpc[w] = "running"
                   /\ kind[message[w]] = "failing"
                   /\ message[w] \in failed' \ failed
                   /\ wpc'[w] = "panicked"]_vars
    /\ [](\A w \in WorkerIds : wpc[w] = "exited" => sender = "None")
    /\ [](Cardinality({w \in WorkerIds : wpc[w] = "panicked"}) = Cardinality(failed))
    /\ [](failed = {} => \A w \in WorkerIds : wpc[w] # "panicked")

C26_Witness ==
    /\ size = 2
    /\ wpc[0] = "exited"
    /\ wpc[1] = "panicked"
    /\ Cardinality(completed) = 1
    /\ Cardinality(failed) = 1

\* C27: the Mutex is never poisoned: the guard is held by no worker that is
\* running its job and by no thread that has ended, so no panic unwinds through
\* a live guard, and the threads that panicked are no more than the failed jobs
\* (no worker panics in lock().unwrap() after another worker's failure).
C27_LockNeverPoisoned ==
    /\ ~ poisoned
    /\ \A w \in WorkerIds :
          lockHolder = w => (~ Terminated(w) /\ wpc[w] # "running")
    /\ Cardinality({w \in WorkerIds : wpc[w] = "panicked"}) <= Cardinality(failed)

C27_Witness ==
    /\ size = 2
    /\ failed = {1}
    /\ 2 \in completed
    /\ ~ poisoned
    /\ \E w \in WorkerIds : lockHolder = w /\ wpc[w] = "recv"

\* C28: when a worker's thread has ended by its job's failure, drop ends in a
\* panic, never by returning; the panic comes at the join of the first such
\* worker in construction order: the workers before it have exited and were
\* joined, the handles of the workers after it were not taken, and those
\* threads may be in any position.
C28_DropPanicsAtFirstFailedWorker ==
    /\ [](poolPc = "dropped" => \A w \in WorkerIds : wpc[w] # "panicked")
    /\ [](poolPc = "drop_panicked" =>
            /\ joinIdx < Len(workers)
            /\ wpc[workers[joinIdx + 1].id] = "panicked"
            /\ ~ workers[joinIdx + 1].thread
            /\ \A i \in 1 .. joinIdx :
                  ~ workers[i].thread /\ wpc[workers[i].id] = "exited"
            /\ \A i \in (joinIdx + 2) .. Len(workers) : workers[i].thread)
    /\ [][(poolPc = "drop_join" /\ wpc[workers[joinIdx + 1].id] = "panicked") =>
            poolPc' \in {"drop_join", "drop_panicked"}]_vars
    /\ (InDrop /\ failed # {}) ~> (poolPc = "drop_panicked")

C28_Witness ==
    /\ poolPc = "drop_panicked"
    /\ size = 2
    /\ joinIdx = 0
    /\ wpc[0] = "panicked"
    /\ workers[2].thread
    /\ wpc[1] = "running"

\* C29: an execute call panics exactly when the sender has been taken or
\* every worker thread has ended (the Receiver is then dropped); with the
\* sender there and a live worker it is accepted and the queue grows by that
\* one job at its tail; a call that panics leaves the queue as it was.
C29_ExecuteFailsIffClosedOrNoWorker ==
    /\ [](Constructed => receiverRefs = Cardinality(LiveWorkers))
    /\ [][(\E k \in JobKinds : Execute(k)) =>
            /\ result' \in {"accepted", "panic_unwrap", "panic_send"}
            /\ result' # "accepted" <=> (sender = "None" \/ LiveWorkers = {})
            /\ result' = "panic_unwrap" <=> sender = "None"
            /\ result' = "accepted" =>
                  /\ queue' = Append(queue, nextJob)
                  /\ nextJob' = nextJob + 1
            /\ result' # "accepted" =>
                  /\ queue' = queue
                  /\ nextJob' = nextJob]_vars

C29_Witness ==
    /\ poolPc = "ready"
    /\ sender = "Some"
    /\ result = "panic_send"
    /\ LiveWorkers = {}
    /\ Cardinality(failed) = size

\* Worker w has been told by recv that the channel is disconnected.
ObservedClosure(w) == message[w] = RecvError \/ wpc[w] = "exited"

====
